---- MODULE Spec2Model ----
(***************************************************************************)
(* Network replication core of the 301CR game engine: the byte-level       *)
(* Encode/Decode primitives, the host session (Start, Update,              *)
(* ForwardToClient, VerifyHandshake, teardown), the DefaultNetLayer        *)
(* password and the RPC calling macro of NetSerializableBase.              *)
(***************************************************************************)
EXTENDS Integers, Sequences, FiniteSets, TLC

(***************************************************************************)
(* Bounds of the model.                                                    *)
(***************************************************************************)
\* number of distinct remote endpoints (NetIdentity values) that send packets
NumIdentities == 3
\* largest number of packets one Poll call returns
MaxPoll == 2
\* largest number of RPCRequests held by one RPC queue
MaxQueue == 2
\* largest number of fields encoded into one buffer
MaxFields == 3

Identities == 1..NumIdentities

(***************************************************************************)
(* Program constants.                                                      *)
(***************************************************************************)
STR_MAX_ENCODE_LEN == 128

\* SocketType
TCP == "TCP"
UDP == "UDP"
SocketTypes == {TCP, UDP}

\* NetResponseCode, in the order of the response-code taxonomy
RC_Unknown == 0
RC_BadRequest == 1
RC_BadVersions == 2
RC_BadAuthentication == 3
RC_Accepted == 4
RC_Responded == 5

\* NetRequestType
RT_Ping == 0
RT_Connect == 1
RT_Query == 2

\* bit of the connection flags that says "a password is required"
LAYER_FLAG_PASSWORD == 1

(***************************************************************************)
(* ByteBuffer: a stack of bytes, pushed and popped at the end.             *)
(***************************************************************************)
Push(buf, b) == Append(buf, b % 256)

Peek(buf) == buf[Len(buf)]

PopRest(buf) == SubSeq(buf, 1, Len(buf) - 1)

Reverse(s) == [i \in 1..Len(s) |-> s[Len(s) + 1 - i]]

\* ByteBuffer::Flip reverses the read order of the whole buffer
Flip(buf) == Reverse(buf)

(***************************************************************************)
(* Encode<T>: least-significant byte first, one Push per byte.             *)
(***************************************************************************)
EncodeUint8(buf, v) == Push(buf, v)

EncodeUint16(buf, v) == Push(Push(buf, v), v \div 256)

\* Encode<int32>, also the path of Encode<float> (the float's 32 bits)
EncodeInt32(buf, v) ==
    Push(Push(Push(Push(buf, v), v \div 256), v \div 65536), v \div 16777216)

EncodeFloat(buf, bits) == EncodeInt32(buf, bits)

\* the loop running one character further before the terminator is forced
EncodeCStr_OneMore(buf, s, i) ==
    LET room == STR_MAX_ENCODE_LEN + 1 - i
        n == IF Len(s) < room THEN Len(s) ELSE room
    IN Push(buf \o [k \in 1..n |-> s[k] % 256], 0)

\* Encode<const char*>, the loop entered with counter i and the characters s
\* before the terminator still to come: the loop has room for
\* STR_MAX_ENCODE_LEN - i pushes; when the terminator comes within them it is
\* pushed by the loop, otherwise the loop pushes room characters and a NUL is
\* forced after it.
EncodeCStr(buf, s, i) ==
    LET room == STR_MAX_ENCODE_LEN - i
        n == IF Len(s) < room THEN Len(s) ELSE room
    IN Push(buf \o [k \in 1..n |-> s[k] % 256], 0)

EncodeString(buf, s) == EncodeCStr(buf, s, 1)

(***************************************************************************)
(* Decode<T>: a size check, then one Pop per byte.  The result is the      *)
(* record [ok, out, buf] of the return value, the out parameter and the    *)
(* buffer left behind.                                                     *)
(***************************************************************************)
DecodeUint8(buf) ==
    IF Len(buf) < 1 THEN [ok |-> FALSE, out |-> 0, buf |-> buf]
    ELSE [ok |-> TRUE, out |-> Peek(buf) % 256, buf |-> PopRest(buf)]

DecodeUint16(buf) ==
    IF Len(buf) < 2 THEN [ok |-> FALSE, out |-> 0, buf |-> buf]
    ELSE LET b0 == Peek(buf)
             r1 == PopRest(buf)
             b1 == Peek(r1)
         IN [ok |-> TRUE, out |-> (b0 + b1 * 256) % 65536, buf |-> PopRest(r1)]

\* Decode<std::string>: pop until a NUL (true) or until the buffer is empty
\* (false); the bytes popped before the NUL are appended to out in pop order.
\* The NUL met first is the one nearest the end of the buffer.
DecodeStringFrom(buf, acc) ==
    LET nuls == {z \in 1..Len(buf) : buf[z] = 0}
        z == IF nuls = {} THEN 0 ELSE CHOOSE y \in nuls : \A x \in nuls : x <= y
        popped == [k \in 1..(Len(buf) - z) |-> buf[Len(buf) + 1 - k]]
    IN [ok |-> nuls # {},
        out |-> acc \o popped,
        buf |-> IF nuls = {} THEN <<>> ELSE SubSeq(buf, 1, z - 1)]

DecodeString(buf) == DecodeStringFrom(buf, <<>>)

(***************************************************************************)
(* The integer types at their full width.  A value of a w-byte integer     *)
(* type is held as the w bytes of its two's-complement bit pattern, least  *)
(* significant first, so that 32-bit and 64-bit values keep every bit.     *)
(***************************************************************************)
Zeros(w) == [i \in 1..w |-> 0]

\* Encode<int8> .. Encode<uint64>: buffer.Push(data >> k * 8), k = 0 .. sizeof(T) - 1;
\* the uint8 parameter of Push keeps byte k of the pattern
RECURSIVE EncodeInt(_, _)
EncodeInt(buf, v) ==
    IF v = <<>> THEN buf ELSE EncodeInt(Push(buf, Head(v)), Tail(v))

\* what a build makes of a left shift of a 32-bit int by 32 bits or more
\* (undefined): the count taken modulo 32, or the result 0
ShiftOutcomes == {"masked", "zero"}

\* the shifts all placing the byte at the bottom
ShiftedPop_Unshifted(p, k, w, ub) == [i \in 1..w |-> IF i = 1 THEN p ELSE 0]

\* buffer.Pop() << k * 8, converted to the w-byte type of out: the popped
\* uint8 is promoted to a 32-bit int, shifted, and the int (negative when the
\* byte reaches bit 31) is widened with its sign
ShiftedPop(p, k, w, ub) ==
    LET pos == IF k < 4 THEN k ELSE IF ub = "masked" THEN k % 4 ELSE 4
    IN [i \in 1..w |->
          IF pos = 4 THEN 0
          ELSE IF i = pos + 1 THEN p
          ELSE IF i > 4 /\ pos = 3 /\ p >= 128 THEN 255
          ELSE 0]

\* out += term, in the w-byte type of out
RECURSIVE AddFrom(_, _, _, _)
AddFrom(a, b, i, carry) ==
    IF i > Len(a) THEN <<>>
    ELSE <<(a[i] + b[i] + carry) % 256>>
           \o AddFrom(a, b, i + 1, (a[i] + b[i] + carry) \div 256)

PlusAssign(out, term) == AddFrom(out, term, 1, 0)

RECURSIVE DecodeIntFrom(_, _, _, _, _)
DecodeIntFrom(buf, out, k, w, ub) ==
    IF k = w THEN [ok |-> TRUE, out |-> out, buf |-> buf]
    ELSE DecodeIntFrom(PopRest(buf), PlusAssign(out, ShiftedPop(Peek(buf), k, w, ub)),
                       k + 1, w, ub)

\* a best-effort parse: the bytes that are there are popped before the failure
DecodeInt_BestEffort(buf, w, ub) ==
    IF Len(buf) < w THEN [ok |-> FALSE, out |-> Zeros(w), buf |-> <<>>]
    ELSE DecodeIntFrom(buf, Zeros(w), 0, w, ub)

\* Decode<int8> .. Decode<uint64>: out = 0, the size check, then
\* out += buffer.Pop() << k * 8 for k = 0 .. sizeof(T) - 1
DecodeInt(buf, w, ub) ==
    IF Len(buf) < w THEN [ok |-> FALSE, out |-> Zeros(w), buf |-> buf]
    ELSE DecodeIntFrom(buf, Zeros(w), 0, w, ub)

\* Decode<float>: the size check, then Decode<uint32> and a bit-for-bit copy;
\* on failure out is not written (the callers pass a fresh variable and do not
\* read it, it is shown as 0)
DecodeFloat(buf) ==
    IF Len(buf) < 4 THEN [ok |-> FALSE, out |-> Zeros(4), buf |-> buf]
    ELSE DecodeInt(buf, 4, "masked")

\* the integer types and their sizes in bytes
IntTypes ==
    { [name |-> "int8", size |-> 1], [name |-> "uint8", size |-> 1],
      [name |-> "int16", size |-> 2], [name |-> "uint16", size |-> 2],
      [name |-> "int32", size |-> 4], [name |-> "uint32", size |-> 4],
      [name |-> "int64", size |-> 8], [name |-> "uint64", size |-> 8] }

(***************************************************************************)
(* Version: a (major, minor) pair, one byte each on the wire.              *)
(***************************************************************************)
EncodeVersion(buf, v) == EncodeUint8(EncodeUint8(buf, v.major), v.minor)

DecodeVersion(buf) ==
    LET a == DecodeUint8(buf)
        b == DecodeUint8(a.buf)
    IN IF Len(buf) < 2 THEN [ok |-> FALSE, out |-> [major |-> 0, minor |-> 0], buf |-> buf]
       ELSE [ok |-> TRUE, out |-> [major |-> a.out, minor |-> b.out], buf |-> b.buf]

(***************************************************************************)
(* Inputs of the model: the host's versions, the passwords a layer can be  *)
(* given and the packets remote endpoints send.                            *)
(***************************************************************************)
HostEngineVersion == [major |-> 1, minor |-> 0]
HostGameVersion == [major |-> 1, minor |-> 0]
OtherVersion == [major |-> 1, minor |-> 1]

\* "Alice", "secret" shortened to "s", "Unnamed Server"
NameAlice == <<65, 108, 105, 99, 101>>
NoPassword == <<>>
SecretPassword == <<115>>
Passwords == {NoPassword, SecretPassword}
ServerName == <<85, 110, 110, 97, 109, 101, 100, 32, 83, 101, 114, 118, 101, 114>>

\* a request type code that is none of Ping, Connect and Query
RT_Other == 7

\* DefaultNetLayer::OnEncodeHandshake: the player's name, then the password
OnEncodeHandshake(buf, name, password) == EncodeString(EncodeString(buf, name), password)

\* the fixed header of a handshake request, as the joining side encodes it
HandshakeHeader(ev, gv, requestType) ==
    EncodeUint16(EncodeVersion(EncodeVersion(<<>>, ev), gv), requestType)

ConnectRequest(ev, gv, password) ==
    OnEncodeHandshake(HandshakeHeader(ev, gv, RT_Connect), NameAlice, password)

PingRequest == HandshakeHeader(HostEngineVersion, HostGameVersion, RT_Ping)
QueryRequest == HandshakeHeader(HostEngineVersion, HostGameVersion, RT_Query)
OtherRequest == HandshakeHeader(HostEngineVersion, HostGameVersion, RT_Other)

\* well-formed, version-matching Connect requests
ConnectRequests == {ConnectRequest(HostEngineVersion, HostGameVersion, pw) : pw \in Passwords}

\* requests whose header decodes but whose engine or game version differs
BadVersionRequests ==
    { ConnectRequest(OtherVersion, HostGameVersion, NoPassword),
      HandshakeHeader(HostEngineVersion, OtherVersion, RT_Query) }

\* requests cut short inside the header: nothing, the engine version only,
\* and everything up to the first byte of the request type
TruncatedRequests ==
    { <<>>, SubSeq(PingRequest, 1, 2), SubSeq(PingRequest, 1, 5) }

Payloads ==
    {PingRequest, QueryRequest, OtherRequest}
    \cup ConnectRequests \cup BadVersionRequests \cup TruncatedRequests

\* RawNetPacket: the source identity and the bytes in arrival (append) order
RawPackets == [source : Identities, buffer : Payloads]

\* the host never reads the bytes of a UDP packet, so fewer contents are tried
UdpPayloads == {<<>>, PingRequest} \cup ConnectRequests
UdpPackets == [source : Identities, buffer : UdpPayloads]

(***************************************************************************)
(* State.                                                                  *)
(***************************************************************************)
VARIABLES
    lifecycle,        \* "created", "started", "failed" (Start returned false), "destroyed"
    bIsConnected,     \* NetSession::bIsConnected
    tcpListening,     \* m_TcpSocket is listening
    udpListening,     \* m_UdpSocket is listening
    maxPlayerCount,   \* NetSession::maxPlayerCount
    heap,             \* live NetClient objects: address -> [identity]
    m_clients,        \* std::vector<NetClient*>: sequence of addresses
    m_clientLookup,   \* map NetIdentity -> NetClient*: identity -> address, 0 for nullptr
    m_password,       \* DefaultNetLayer::m_password
    m_connFlags,      \* DefaultNetLayer::m_connFlags
    pc,               \* position inside Update: "idle", "tcp", "udp"
    remaining,        \* packets of Update's local vector the running loop has yet to visit
    last,             \* the last packet handed to ForwardToClient and what it caused
    m_netRole,        \* NetSerializableBase::m_netRole
    m_networkId,      \* NetSerializableBase::m_networkId
    m_TcpRpcQueue,    \* NetSerializableBase::m_TcpRpcQueue
    m_UdpRpcQueue,    \* NetSerializableBase::m_UdpRpcQueue
    rpcLast,          \* the RPC call just made and its outcome, NoCall after any other step
    rpcExec,          \* one ExecuteRPC / RegisterRPCs experiment: its input and its result
    codec             \* one Encode / Decode experiment: its input and its result

hostVars == <<lifecycle, bIsConnected, tcpListening, udpListening, maxPlayerCount,
              heap, m_clients, m_clientLookup, pc, remaining, last>>
layerVars == <<m_password, m_connFlags>>
rpcVars == <<m_netRole, m_networkId, m_TcpRpcQueue, m_UdpRpcQueue, rpcLast>>
pureVars == <<rpcExec, codec>>
vars == <<hostVars, layerVars, rpcVars, pureVars>>

NULL == 0

\* rpcLast before any call
NoCall == [func |-> "", args |-> <<>>, registered |-> FALSE, index |-> 0,
           mode |-> "Unknown", socket |-> TCP, role |-> "None", networkId |-> 0,
           outcome |-> "none", tcpBefore |-> 0, udpBefore |-> 0]

\* rpcExec and codec while no experiment is set up
NoExperiment == [kind |-> "none", done |-> FALSE]

\* last before any packet
NoPacket == [source |-> 0, socket |-> "none", raw |-> <<>>, passed |-> <<>>,
             verified |-> FALSE, code |-> RC_Unknown, sent |-> <<>>]

(***************************************************************************)
(* NetHostSession: handshake verification and client tracking.             *)
(***************************************************************************)
\* NetSocket::SendTo appends one datagram to what the call has sent so far
SendTo(sent, data, dest, socket) ==
    Append(sent, [dest |-> dest, data |-> data, socket |-> socket])

\* the player limit written before the players connected
QueryResponse_Swapped(clients, maxPlayers) ==
    EncodeUint8(
      EncodeString(
        EncodeUint16(
          EncodeUint16(
            EncodeUint16(<<>>, RC_Responded),
            maxPlayers),
          Len(clients) % 65536),
        ServerName),
      0)

\* case Query of VerifyHandshake: Responded, the players connected, the player
\* limit, the server name and the bit flags
QueryResponse(clients, maxPlayers) ==
    EncodeUint8(
      EncodeString(
        EncodeUint16(
          EncodeUint16(
            EncodeUint16(<<>>, RC_Responded),
            Len(clients) % 65536),
          maxPlayers),
        ServerName),
      0)

\* NetHostSession::VerifyHandshake(client, packet, socket) with the session's
\* client list and player limit; yields the returned code and what was sent.
VerifyHandshake(buffer, source, socket, clients, maxPlayers) ==
    LET e == DecodeVersion(buffer)
        g == DecodeVersion(e.buf)
        t == DecodeUint16(g.buf)
        headerOk == e.ok /\ g.ok /\ t.ok
    IN IF ~headerOk
       THEN [code |-> RC_BadRequest,
             sent |-> SendTo(<<>>, EncodeUint16(<<>>, RC_BadRequest), source, socket)]
       ELSE IF HostEngineVersion # e.out \/ HostGameVersion # g.out
       THEN [code |-> RC_BadVersions,
             sent |-> SendTo(<<>>, EncodeUint16(<<>>, RC_BadVersions), source, socket)]
       ELSE IF t.out = RT_Ping
       THEN [code |-> RC_Responded,
             sent |-> SendTo(<<>>, EncodeUint16(<<>>, RC_Responded), source, socket)]
       ELSE IF t.out = RT_Connect
       THEN [code |-> RC_Accepted,
             sent |-> SendTo(<<>>, EncodeUint16(<<>>, RC_Accepted), source, socket)]
       ELSE IF t.out = RT_Query
       THEN [code |-> RC_Responded,
             sent |-> SendTo(<<>>, QueryResponse(clients, maxPlayers), source, socket)]
       ELSE [code |-> RC_Unknown, sent |-> <<>>]

\* m_clientLookup[identity]: operator[] of the map default-inserts a nullptr
\* entry for a key that is absent
LookupIndex(lookup, identity) ==
    IF identity \in DOMAIN lookup THEN lookup ELSE (identity :> NULL) @@ lookup

\* NetHostSession::GetClient
GetClient(lookup, identity) == LookupIndex(lookup, identity)[identity]

\* new NetClient(identity): the lowest free address
NewAddress(h) == CHOOSE a \in 1..(Cardinality(DOMAIN h) + 1) :
                    /\ a \notin DOMAIN h
                    /\ \A b \in 1..(a - 1) : b \in DOMAIN h

\* the socket type left out of the test
NeedsHandshake_AnySocket(client, socket) == client = NULL

\* the test that sends a packet into handshake verification
NeedsHandshake(client, socket) == client = NULL /\ socket = TCP

\* the list overwritten by the new client
TrackInList_Replace(clients, client) == <<client>>

\* m_clients.emplace_back(client)
TrackInList(clients, client) == Append(clients, client)

\* the store into the lookup left out
TrackInLookup_Forgotten(lookup, identity, client) == lookup

\* m_clientLookup[identity] = client
TrackInLookup(lookup, identity, client) == [lookup EXCEPT ![identity] = client]

\* NetHostSession::ForwardToClient(packet, socket), packet.buffer already flipped
ForwardToClient(raw, buffer, socket) ==
    LET identity == raw.source
        lookup1 == LookupIndex(m_clientLookup, identity)
        client == GetClient(m_clientLookup, identity)
    IN IF NeedsHandshake(client, socket)
       THEN LET fresh == NewAddress(heap)
                r == VerifyHandshake(buffer, identity, socket, m_clients, maxPlayerCount)
            IN /\ last' = [source |-> identity, socket |-> socket, raw |-> raw.buffer,
                           passed |-> buffer, verified |-> TRUE,
                           code |-> r.code, sent |-> r.sent]
               /\ IF r.code = RC_Accepted
                  THEN /\ heap' = (fresh :> [identity |-> identity]) @@ heap
                       /\ m_clients' = TrackInList(m_clients, fresh)
                       /\ m_clientLookup' = TrackInLookup(lookup1, identity, fresh)
                  ELSE /\ heap' = heap
                       /\ m_clients' = m_clients
                       /\ m_clientLookup' = lookup1
       ELSE /\ last' = [source |-> identity, socket |-> socket, raw |-> raw.buffer,
                        passed |-> buffer, verified |-> FALSE,
                        code |-> RC_Unknown, sent |-> <<>>]
            /\ heap' = heap
            /\ m_clients' = m_clients
            /\ m_clientLookup' = lookup1

(***************************************************************************)
(* NetHostSession::Start and the destructor.                               *)
(***************************************************************************)
\* NetSocket::Listen: the socket listens afterwards exactly when it returned true
Listen(ok) == ok

\* Start(): the outcome of each Listen is the environment's choice
Start ==
    /\ lifecycle = "created"
    /\ pc = "idle"
    /\ \E tcpOk \in BOOLEAN, udpOk \in BOOLEAN :
         IF ~tcpOk
         THEN /\ tcpListening' = Listen(FALSE)
              /\ UNCHANGED <<udpListening, bIsConnected>>
              /\ lifecycle' = "failed"
         ELSE IF ~udpOk
         THEN /\ tcpListening' = Listen(TRUE)
              /\ udpListening' = Listen(FALSE)
              /\ UNCHANGED bIsConnected
              /\ lifecycle' = "failed"
         ELSE /\ tcpListening' = Listen(TRUE)
              /\ udpListening' = Listen(TRUE)
              /\ bIsConnected' = TRUE
              /\ lifecycle' = "started"
    /\ UNCHANGED <<maxPlayerCount, heap, m_clients, m_clientLookup, pc,
                   remaining, last, layerVars, rpcVars, pureVars>>

\* ~NetHostSession(): delete every client of the list; the members (sockets,
\* list, lookup) are destroyed with the session
RECURSIVE DeleteAll(_, _)
DeleteAll(h, clients) ==
    IF clients = <<>> THEN h
    ELSE DeleteAll([a \in DOMAIN h \ {Head(clients)} |-> h[a]], Tail(clients))

Destructor ==
    /\ lifecycle # "destroyed"
    /\ pc = "idle"
    /\ heap' = DeleteAll(heap, m_clients)
    /\ m_clients' = <<>>
    /\ m_clientLookup' = <<>>
    /\ tcpListening' = FALSE
    /\ udpListening' = FALSE
    /\ lifecycle' = "destroyed"
    /\ UNCHANGED <<bIsConnected, maxPlayerCount, pc, remaining, last,
                   layerVars, rpcVars, pureVars>>

(***************************************************************************)
(* NetHostSession::Update, one step per Poll and per loop iteration.       *)
(* The engine ticks a session only once Start has returned true.           *)
(***************************************************************************)
\* NetSocket::Poll: a socket that is not listening has nothing to return
PollCounts(listening) == IF listening THEN 0..MaxPoll ELSE {0}

UpdatePollTcp ==
    /\ lifecycle = "started"
    /\ pc = "idle"
    /\ \E n \in PollCounts(tcpListening) : remaining' = n
    /\ pc' = "tcp"
    /\ UNCHANGED <<lifecycle, bIsConnected, tcpListening, udpListening, maxPlayerCount,
                   heap, m_clients, m_clientLookup, last, layerVars, rpcVars, pureVars>>

UpdateTcpPacket ==
    /\ pc = "tcp"
    /\ remaining > 0
    /\ \E p \in RawPackets : ForwardToClient(p, Flip(p.buffer), TCP)
    /\ remaining' = remaining - 1
    /\ UNCHANGED <<lifecycle, bIsConnected, tcpListening, udpListening, maxPlayerCount,
                   pc, layerVars, rpcVars, pureVars>>

UpdatePollUdp ==
    /\ pc = "tcp"
    /\ remaining = 0
    /\ \E n \in PollCounts(udpListening) : remaining' = n
    /\ pc' = "udp"
    /\ UNCHANGED <<lifecycle, bIsConnected, tcpListening, udpListening, maxPlayerCount,
                   heap, m_clients, m_clientLookup, last, layerVars, rpcVars, pureVars>>

UpdateUdpPacket ==
    /\ pc = "udp"
    /\ remaining > 0
    /\ \E p \in UdpPackets : ForwardToClient(p, Flip(p.buffer), UDP)
    /\ remaining' = remaining - 1
    /\ UNCHANGED <<lifecycle, bIsConnected, tcpListening, udpListening, maxPlayerCount,
                   pc, layerVars, rpcVars, pureVars>>

UpdateReturn ==
    /\ pc = "udp"
    /\ remaining = 0
    /\ pc' = "idle"
    /\ UNCHANGED <<lifecycle, bIsConnected, tcpListening, udpListening, maxPlayerCount,
                   heap, m_clients, m_clientLookup, remaining, last,
                   layerVars, rpcVars, pureVars>>

(***************************************************************************)
(* DefaultNetLayer.                                                        *)
(***************************************************************************)
\* m_connFlags with the bit cleared / set
ClearBit(flags, bit) == IF (flags \div bit) % 2 = 1 THEN flags - bit ELSE flags
SetBit(flags, bit) == IF (flags \div bit) % 2 = 1 THEN flags ELSE flags + bit

\* the flags assigned instead of or-ed
PasswordFlags_Assigned(flags, pass) ==
    IF pass = <<>> THEN 0 ELSE LAYER_FLAG_PASSWORD

\* the bit-flag part of SetPassword: `&= ~LAYER_FLAG_PASSWORD` for an empty
\* password, `|= LAYER_FLAG_PASSWORD` otherwise
PasswordFlags(flags, pass) ==
    IF pass = <<>>
    THEN ClearBit(flags, LAYER_FLAG_PASSWORD)
    ELSE SetBit(flags, LAYER_FLAG_PASSWORD)

SetPassword ==
    /\ pc = "idle"
    /\ lifecycle # "destroyed"
    /\ \E pass \in Passwords :
         /\ m_password' = pass
         /\ m_connFlags' = PasswordFlags(m_connFlags, pass)
    /\ UNCHANGED <<hostVars, rpcVars, pureVars>>

(***************************************************************************)
(* The host session's specification.                                       *)
(***************************************************************************)
\* the player limit the session is created with
MaxPlayerCounts == {2}

InitLayer ==
    /\ m_password = <<>>
    /\ m_connFlags = 0

InitPureIdle ==
    /\ rpcExec = NoExperiment
    /\ codec = NoExperiment

InitRPCIdle ==
    /\ m_netRole = "None"
    /\ m_networkId = 0
    /\ m_TcpRpcQueue = <<>>
    /\ m_UdpRpcQueue = <<>>
    /\ rpcLast = NoCall

Init ==
    /\ lifecycle = "created"
    /\ bIsConnected = FALSE
    /\ tcpListening = FALSE
    /\ udpListening = FALSE
    /\ maxPlayerCount \in MaxPlayerCounts
    /\ heap = <<>>
    /\ m_clients = <<>>
    /\ m_clientLookup = <<>>
    /\ pc = "idle"
    /\ remaining = 0
    /\ last = NoPacket
    /\ InitLayer
    /\ InitRPCIdle
    /\ InitPureIdle

Next ==
    \/ Start
    \/ UpdatePollTcp
    \/ UpdateTcpPacket
    \/ UpdatePollUdp
    \/ UpdateUdpPacket
    \/ UpdateReturn
    \/ SetPassword
    \/ Destructor

Spec == Init /\ [][Next]_vars

(***************************************************************************)
(* NetSerializableBase: roles, RPC registration and the RPC calling macro. *)
(***************************************************************************)
NetRoles == {"None", "RemotePuppet", "HostPuppet", "RemoteOwner", "HostOwner"}
RPCCallingModes == {"Unknown", "Host", "Owner", "Broadcast"}

\* ownership that needs a session
IsNetOwner_WithoutNone(role) == role = "HostOwner" \/ role = "RemoteOwner"

IsNetOwner(role) == role = "None" \/ role = "HostOwner" \/ role = "RemoteOwner"
IsNetHost(role) == role = "HostOwner" \/ role = "HostPuppet"
HasNetControl(role) == IsNetOwner(role) \/ IsNetHost(role)

\* the RPC_INDEX lines of ATestEntity::RegisterRPCs
ATestEntityTable ==
    << [socket |-> TCP, mode |-> "Host", func |-> "ResetPosition", params |-> 0],
       [socket |-> UDP, mode |-> "Broadcast", func |-> "MoveTo", params |-> 2],
       [socket |-> UDP, mode |-> "Broadcast", func |-> "PrintTime", params |-> 2] >>

\* the RPC_INDEX lines of a class derived from ATestEntity that declares an
\* Owner RPC and an RPC whose mode is Unknown
DerivedTable ==
    << [socket |-> TCP, mode |-> "Owner", func |-> "Respawn", params |-> 0],
       [socket |-> UDP, mode |-> "Unknown", func |-> "Probe", params |-> 0] >>

\* the tables of the object's class chain, the most distant ancestor first
ClassChain == <<ATestEntityTable, DerivedTable>>

\* NetSerializableBase::RegisterRPCs: the root of the chain knows no RPC and
\* starts the index at 0
BaseRegisterRPCs(func) == [found |-> FALSE, index |-> 0, mode |-> "Unknown", socket |-> TCP]

\* the RPC_INDEX lines of one class, from entry i on
RECURSIVE IndexEntries(_, _, _, _)
IndexEntries(table, i, func, info) ==
    IF i > Len(table) THEN [info EXCEPT !.found = FALSE]
    ELSE IF table[i].func = func
    THEN [found |-> TRUE, index |-> info.index,
          mode |-> table[i].mode, socket |-> table[i].socket]
    ELSE IndexEntries(table, i + 1, func, [info EXCEPT !.index = (@ + 1) % 65536])

\* RegisterRPCs of the class at depth d: RPC_INDEX_HEADER asks the parent
\* first, then the class's own RPC_INDEX lines continue the parent's index
RECURSIVE RegisterRPCsAt(_, _)
RegisterRPCsAt(d, func) ==
    IF d = 0 THEN BaseRegisterRPCs(func)
    ELSE LET parent == RegisterRPCsAt(d - 1, func)
         IN IF parent.found THEN parent
            ELSE IndexEntries(ClassChain[d], 1, func, parent)

RegisterRPCs(func) == RegisterRPCsAt(Len(ClassChain), func)

\* names a caller may pass to the calling macro; the last is registered nowhere
FuncNames == {"ResetPosition", "MoveTo", "PrintTime", "Respawn", "Probe", "Vanish"}

\* bit patterns of the float arguments: 0.0f and 1.0f
FloatBits == {0, 1065353216}

\* the second argument encoded before the first
EncodeParams_Reversed(args) ==
    IF Len(args) = 0 THEN <<>>
    ELSE EncodeFloat(EncodeFloat(<<>>, args[2]), args[1])

\* funcEncode of CallRPC / CallRPC_TwoParam: the arguments in call order
EncodeParams(args) ==
    IF Len(args) = 0 THEN <<>>
    ELSE EncodeFloat(EncodeFloat(<<>>, args[1]), args[2])

ArgLists(func) ==
    IF func = "MoveTo" THEN {<<a, 0>> : a \in FloatBits}
    ELSE IF func = "PrintTime" THEN {<<1065353216, 1065353216>>}
    ELSE {<<>>}

\* the host rights and owner rights that reversed
ExecutesLocally_Swapped(role, mode) ==
    (IsNetOwner(role) /\ mode = "Host") \/ (IsNetHost(role) /\ mode = "Owner")

\* first test of __CallRPC: the call runs the function on this machine
ExecutesLocally(role, mode) ==
    (IsNetHost(role) /\ mode = "Host") \/ (IsNetOwner(role) /\ mode = "Owner")

\* the host's right to remote a Broadcast call left out
MayRemote_NonBroadcast(role, mode) == mode # "Broadcast"

\* every caller allowed to remote
MayRemote_AnyCaller(role, mode) == TRUE

\* second test of __CallRPC: the call may be sent to the other side
MayRemote(role, mode) == IsNetHost(role) \/ mode # "Broadcast"

\* NetSerializableBase::RemoteCallRPC: the request joins the queue of its socket
RemoteCallRPC(queue, info, params) ==
    Append(queue, [function |-> [index |-> info.index, callingMode |-> info.mode,
                                 socket |-> info.socket],
                   params |-> params])

\* what __CallRPC does for the function name, the role and the network id
CallOutcome(func, role, networkId) ==
    LET info == RegisterRPCs(func)
    IN IF ~info.found THEN "unregistered"
       ELSE IF networkId = 0 THEN "nothing"
       ELSE IF ExecutesLocally(role, info.mode) THEN "local"
       ELSE IF MayRemote(role, info.mode) THEN "remote"
       ELSE "error"

\* __CallRPC(object, func, funcCall, funcEncode)
CallRPC ==
    \E func \in FuncNames : \E args \in ArgLists(func) :
      LET info == RegisterRPCs(func)
          outcome == CallOutcome(func, m_netRole, m_networkId)
          remoteTcp == outcome = "remote" /\ info.socket = TCP
          remoteUdp == outcome = "remote" /\ info.socket = UDP
      IN /\ remoteTcp => Len(m_TcpRpcQueue) < MaxQueue
         /\ remoteUdp => Len(m_UdpRpcQueue) < MaxQueue
         /\ m_TcpRpcQueue' = IF remoteTcp
                             THEN RemoteCallRPC(m_TcpRpcQueue, info, EncodeParams(args))
                             ELSE m_TcpRpcQueue
         /\ m_UdpRpcQueue' = IF remoteUdp
                             THEN RemoteCallRPC(m_UdpRpcQueue, info, EncodeParams(args))
                             ELSE m_UdpRpcQueue
         /\ rpcLast' = [func |-> func, args |-> args, registered |-> info.found,
                        index |-> info.index, mode |-> info.mode, socket |-> info.socket,
                        role |-> m_netRole, networkId |-> m_networkId,
                        outcome |-> outcome,
                        tcpBefore |-> Len(m_TcpRpcQueue), udpBefore |-> Len(m_UdpRpcQueue)]
         /\ UNCHANGED <<m_netRole, m_networkId, hostVars, layerVars, pureVars>>

\* the numeric value of an RPCCallingMode
ModeCode(mode) ==
    IF mode = "Host" THEN 1 ELSE IF mode = "Owner" THEN 2
    ELSE IF mode = "Broadcast" THEN 3 ELSE 0

\* ByteBuffer::Push(data, count): the bytes in the order they are stored
RECURSIVE PushAll(_, _)
PushAll(buf, bytes) ==
    IF bytes = <<>> THEN buf ELSE PushAll(Push(buf, Head(bytes)), Tail(bytes))

\* the parameter size written ahead of the calling mode
EncodeRPCRequest_SizeFirst(buf, data) ==
    PushAll(
      EncodeUint8(
        EncodeUint16(
          EncodeUint16(buf, data.function.index),
          Len(data.params)),
        ModeCode(data.function.callingMode)),
      data.params)

\* Encode<RPCRequest>: index, calling mode, parameter size, parameter bytes
EncodeRPCRequest(buf, data) ==
    PushAll(
      EncodeUint16(
        EncodeUint8(
          EncodeUint16(buf, data.function.index),
          ModeCode(data.function.callingMode)),
        Len(data.params)),
      data.params)

\* NetSerializableBase::EncodeRPCRequests: the flush walks the queue of the
\* socket type from its first request to its last
RECURSIVE EncodeRPCRequests(_, _)
EncodeRPCRequests(buf, queue) ==
    IF queue = <<>> THEN buf
    ELSE EncodeRPCRequests(EncodeRPCRequest(buf, Head(queue)), Tail(queue))

\* (RPCCallingMode)target: the enumerator of the byte, or the byte itself
\* when no enumerator has that value
ModeOfCode(code) ==
    IF code = 0 THEN "Unknown" ELSE IF code = 1 THEN "Host"
    ELSE IF code = 2 THEN "Owner" ELSE IF code = 3 THEN "Broadcast" ELSE code

\* ByteBuffer::PopBuffer(target, count): the count bytes at the end of the
\* buffer move to the target, which pops them in the order the buffer would
\* have.  A count above the size of the buffer is a pop of an empty buffer,
\* which is undefined: the call stops at the bytes that are there ("clamped")
\* or reads past them ("overrun").
PopBufferOutcomes == {"clamped", "overrun"}

PopBuffer(buf, count, short) ==
    IF count <= Len(buf)
    THEN [target |-> SubSeq(buf, Len(buf) - count + 1, Len(buf)),
          buf |-> SubSeq(buf, 1, Len(buf) - count),
          overrun |-> FALSE]
    ELSE [target |-> IF short = "clamped" THEN buf
                     ELSE [k \in 1..count |-> IF k <= count - Len(buf) THEN 0
                                              ELSE buf[k - (count - Len(buf))]],
          buf |-> <<>>,
          overrun |-> short = "overrun"]

NoRequest == [function |-> [index |-> 0, callingMode |-> "Unknown"], params |-> <<>>]

\* Decode<RPCRequest>: false when one of the three header fields fails to
\* decode, otherwise the cast, PopBuffer and true
DecodeRPCRequest(buf, short) ==
    LET index == DecodeUint16(buf)
        target == DecodeUint8(index.buf)
        paramCount == DecodeUint16(target.buf)
    IN  IF ~index.ok
        THEN [ok |-> FALSE, out |-> NoRequest, buf |-> index.buf, overrun |-> FALSE]
        ELSE IF ~target.ok
        THEN [ok |-> FALSE, out |-> [NoRequest EXCEPT !.function.index = index.out],
              buf |-> target.buf, overrun |-> FALSE]
        ELSE IF ~paramCount.ok
        THEN [ok |-> FALSE, out |-> [NoRequest EXCEPT !.function.index = index.out],
              buf |-> paramCount.buf, overrun |-> FALSE]
        ELSE LET params == PopBuffer(paramCount.buf, paramCount.out, short)
             IN [ok |-> TRUE,
                 out |-> [function |-> [index |-> index.out,
                                        callingMode |-> ModeOfCode(target.out)],
                          params |-> params.target],
                 buf |-> params.buf,
                 overrun |-> params.overrun]

\* NetSerializableBase::HasQueuedNetData
HasQueuedNetData(socketType) ==
    IF socketType = TCP THEN Len(m_TcpRpcQueue) # 0 ELSE Len(m_UdpRpcQueue) # 0

\* NetSerializableBase::ClearQueuedNetData, at a flush boundary
ClearQueuedNetData ==
    /\ m_UdpRpcQueue' = <<>>
    /\ m_TcpRpcQueue' = <<>>
    /\ rpcLast' = NoCall
    /\ UNCHANGED <<m_netRole, m_networkId, hostVars, layerVars, pureVars>>

\* NetSerializableBase::UpdateRole(session, assignOwner): the role follows
\* from whether the session is the host and whether the object is owned here
\* a derivation that looks at the session only
RoleOf_OwnerIgnored(isHost, isOwner) ==
    IF isHost THEN "HostOwner" ELSE "RemotePuppet"

RoleOf(isHost, isOwner) ==
    IF isHost THEN (IF isOwner THEN "HostOwner" ELSE "HostPuppet")
    ELSE (IF isOwner THEN "RemoteOwner" ELSE "RemotePuppet")

\* UpdateRole(session, assignOwner) with an active session; rpcExec keeps the
\* two inputs of the last update
UpdateRole ==
    /\ \E isHost \in BOOLEAN, assignOwner \in BOOLEAN :
         /\ m_netRole' = RoleOf(isHost, assignOwner)
         /\ rpcExec' = [kind |-> "role", done |-> TRUE,
                        isHost |-> isHost, assignOwner |-> assignOwner]
    /\ rpcLast' = NoCall
    /\ UNCHANGED <<m_networkId, m_TcpRpcQueue, m_UdpRpcQueue, hostVars, layerVars, codec>>

\* the session registers the object and gives it its network id
NetworkIds == {1}

AssignNetworkId ==
    /\ m_networkId = 0
    /\ \E id \in NetworkIds : m_networkId' = id
    /\ rpcLast' = NoCall
    /\ UNCHANGED <<m_netRole, m_TcpRpcQueue, m_UdpRpcQueue, hostVars, layerVars, pureVars>>

InitHostIdle ==
    /\ lifecycle = "created"
    /\ bIsConnected = FALSE
    /\ tcpListening = FALSE
    /\ udpListening = FALSE
    /\ maxPlayerCount \in MaxPlayerCounts
    /\ heap = <<>>
    /\ m_clients = <<>>
    /\ m_clientLookup = <<>>
    /\ pc = "idle"
    /\ remaining = 0
    /\ last = NoPacket

InitRPC ==
    /\ InitHostIdle
    /\ InitLayer
    /\ m_netRole = "None"
    /\ m_networkId = 0
    /\ m_TcpRpcQueue = <<>>
    /\ m_UdpRpcQueue = <<>>
    /\ rpcLast = NoCall
    /\ InitPureIdle

NextRPC ==
    \/ CallRPC
    \/ ClearQueuedNetData
    \/ UpdateRole
    \/ AssignNetworkId

SpecRPC == InitRPC /\ [][NextRPC]_vars

(***************************************************************************)
(* ExecuteRPC: the dispatch from an index back to the function.            *)
(***************************************************************************)
\* the result of a dispatch: the returned bool, the function invoked ("" when
\* none was), the arguments it was invoked with and the buffer left behind
NoDispatch(buf) == [handled |-> FALSE, invoked |-> "", args |-> <<>>, buf |-> buf]

\* NetSerializableBase::ExecuteRPC: the root of the chain knows no RPC
BaseExecuteRPC(id, params) == NoDispatch(params)

\* the function called whether or not its parameters decoded
ExecSlot_Unchecked(entry, buf) ==
    LET a == DecodeFloat(buf)
        b == DecodeFloat(a.buf)
    IN IF entry.params = 0
       THEN [handled |-> TRUE, invoked |-> entry.func, args |-> <<>>, buf |-> buf]
       ELSE [handled |-> TRUE, invoked |-> entry.func, args |-> <<a.out, b.out>>,
             buf |-> IF a.ok THEN b.buf ELSE a.buf]

\* the body of RPC_EXEC / RPC_EXEC_TwoParam once __TEMP_ID is 0: decode A, then
\* B (&& stops at the first failure), call the function when both decoded,
\* return true in either case
ExecSlot(entry, buf) ==
    LET a == DecodeFloat(buf)
        b == DecodeFloat(a.buf)
    IN IF entry.params = 0
       THEN [handled |-> TRUE, invoked |-> entry.func, args |-> <<>>, buf |-> buf]
       ELSE IF a.ok /\ b.ok
       THEN [handled |-> TRUE, invoked |-> entry.func, args |-> <<a.out, b.out>>,
             buf |-> b.buf]
       ELSE [handled |-> TRUE, invoked |-> "", args |-> <<>>,
             buf |-> IF a.ok THEN b.buf ELSE a.buf]

\* the RPC_EXEC lines of one class, from entry i on: if (__TEMP_ID == 0) the
\* slot runs, else --__TEMP_ID
RECURSIVE ExecEntries(_, _, _, _)
ExecEntries(table, i, id, buf) ==
    IF i > Len(table) THEN NoDispatch(buf)
    ELSE IF id = 0 THEN ExecSlot(table[i], buf)
    ELSE ExecEntries(table, i + 1, (id - 1) % 65536, buf)

\* ExecuteRPC of the class at depth d.  RPC_EXEC_HEADER copies id into a local
\* __TEMP_ID and asks the parent first; the parent counts down in a copy of
\* its own, so the class's own RPC_EXEC lines start again from the id passed in
RECURSIVE ExecuteRPCAt(_, _, _)
ExecuteRPCAt(d, id, params) ==
    IF d = 0 THEN BaseExecuteRPC(id, params)
    ELSE LET parent == ExecuteRPCAt(d - 1, id, params)
         IN IF parent.handled THEN parent
            ELSE ExecEntries(ClassChain[d], 1, id, params)

\* largest RPC index handed to ExecuteRPC
MaxRpcId == 6

\* parameter buffers handed to ExecuteRPC: two encoded floats as they are
\* read after the flip and as they were written, whole and cut short
FloatPairs == {<<0, 0>>, <<1065353216, 0>>, <<0, 1065353216>>}

WholeParams ==
    {EncodeParams(a) : a \in FloatPairs} \cup {Flip(EncodeParams(a)) : a \in FloatPairs}

ParamBuffers == {SubSeq(b, k, Len(b)) : b \in WholeParams, k \in 1..9}

\* the experiments: a dispatch of an index on an object of the class at depth
\* d, and a lookup of a name followed by the dispatch of the index it returned
ExecExperiments ==
    [kind : {"execute"}, done : {FALSE}, depth : 1..Len(ClassChain),
     id : 0..MaxRpcId, func : {""}, params : ParamBuffers,
     info : {BaseRegisterRPCs("")}, out : {NoDispatch(<<>>)}]
    \cup
    [kind : {"register"}, done : {FALSE}, depth : 1..Len(ClassChain),
     id : {0}, func : FuncNames, params : {Flip(EncodeParams(a)) : a \in FloatPairs},
     info : {BaseRegisterRPCs("")}, out : {NoDispatch(<<>>)}]

\* ExecuteRPC(id, params) on the object
ExecuteRPC ==
    /\ rpcExec.kind = "execute"
    /\ ~rpcExec.done
    /\ rpcExec' = [rpcExec EXCEPT
                     !.done = TRUE,
                     !.out = ExecuteRPCAt(rpcExec.depth, rpcExec.id, rpcExec.params)]
    /\ UNCHANGED <<hostVars, layerVars, rpcVars, codec>>

\* RegisterRPCs(func, info) on the object, then ExecuteRPC of info.index
RegisterThenExecute ==
    /\ rpcExec.kind = "register"
    /\ ~rpcExec.done
    /\ LET info == RegisterRPCsAt(rpcExec.depth, rpcExec.func)
       IN rpcExec' = [rpcExec EXCEPT
                        !.done = TRUE,
                        !.info = info,
                        !.id = info.index,
                        !.out = ExecuteRPCAt(rpcExec.depth, info.index, rpcExec.params)]
    /\ UNCHANGED <<hostVars, layerVars, rpcVars, codec>>

InitExec ==
    /\ InitHostIdle
    /\ InitLayer
    /\ InitRPCIdle
    /\ codec = NoExperiment
    /\ rpcExec \in ExecExperiments

NextExec ==
    \/ ExecuteRPC
    \/ RegisterThenExecute

SpecExec == InitExec /\ [][NextExec]_vars

(***************************************************************************)
(* Encode / Decode experiments: values written into an empty ByteBuffer    *)
(* and read back.                                                          *)
(***************************************************************************)
SizeOf(type) ==
    IF type = "float" THEN 4 ELSE (CHOOSE t \in IntTypes : t.name = type).size

\* Encode(buffer, field) and Decode(buffer, out) by the field's type
EncodeField(buf, field) ==
    IF field.type = "string" THEN EncodeString(buf, field.value)
    ELSE EncodeInt(buf, field.value)

DecodeField(buf, type, ub) ==
    IF type = "string" THEN DecodeString(buf)
    ELSE IF type = "float" THEN DecodeFloat(buf)
    ELSE DecodeInt(buf, SizeOf(type), ub)

RECURSIVE EncodeFields(_, _)
EncodeFields(buf, fields) ==
    IF fields = <<>> THEN buf
    ELSE EncodeFields(EncodeField(buf, Head(fields)), Tail(fields))

\* one Decode call per field, in the order of the fields
RECURSIVE DecodeFields(_, _, _, _)
DecodeFields(buf, fields, ub, acc) ==
    IF fields = <<>> THEN [oks |-> acc.oks, values |-> acc.values, buf |-> buf]
    ELSE LET r == DecodeField(buf, Head(fields).type, ub)
         IN DecodeFields(r.buf, Tail(fields), ub,
                         [oks |-> Append(acc.oks, r.ok), values |-> Append(acc.values, r.out)])

NoFields == [oks |-> <<>>, values |-> <<>>]

\* values of a w-byte integer type: 0, 1, -1 (all bits set), the value whose
\* bytes are 1, 2, .. w and the value with only the top bit set
IntValues(w) ==
    { Zeros(w),
      [i \in 1..w |-> IF i = 1 THEN 1 ELSE 0],
      [i \in 1..w |-> 255],
      [i \in 1..w |-> i],
      [i \in 1..w |-> IF i = w THEN 128 ELSE 0] }

\* a string of n characters, no two neighbours equal
Str(n) == [i \in 1..n |-> 65 + (i % 26)]

\* string lengths around the cap
StringLengths ==
    {0, 2, STR_MAX_ENCODE_LEN - 2, STR_MAX_ENCODE_LEN - 1, STR_MAX_ENCODE_LEN,
     STR_MAX_ENCODE_LEN + 2}

\* the fields of a multi-field buffer: 8/16/32-bit integers and short strings
FieldSamples ==
    { [type |-> "uint8", value |-> <<7>>],
      [type |-> "int16", value |-> <<254, 255>>],
      [type |-> "uint16", value |-> <<1, 2>>],
      [type |-> "uint32", value |-> <<1, 2, 3, 200>>],
      [type |-> "string", value |-> <<65, 108>>],
      [type |-> "string", value |-> <<>>] }

FieldLists == UNION {[1..n -> FieldSamples] : n \in 1..MaxFields}

NoDecoded == [oks |-> <<>>, values |-> <<>>, buf |-> <<>>]

CodecExperiments ==
    { [kind |-> "int", done |-> FALSE, fields |-> <<[type |-> t.name, value |-> v]>>,
       ub |-> ub, encoded |-> <<>>, direct |-> NoDecoded, flipped |-> NoDecoded]
        : t \in IntTypes, v \in UNION {IntValues(w) : w \in {1, 2, 4, 8}},
          ub \in ShiftOutcomes }
    \cup
    { [kind |-> "fields", done |-> FALSE, fields |-> fs,
       ub |-> "masked", encoded |-> <<>>, direct |-> NoDecoded, flipped |-> NoDecoded]
        : fs \in FieldLists }
    \cup
    { [kind |-> "string", done |-> FALSE, fields |-> <<[type |-> "string", value |-> Str(n)]>>,
       ub |-> "masked", encoded |-> <<>>, direct |-> NoDecoded, flipped |-> NoDecoded]
        : n \in StringLengths }

\* the fixed-width types and buffers that hold fewer bytes than the type is wide
FixedWidthTypes == {t.name : t \in IntTypes} \cup {"float"}

ShortBuffers(w) == {SubSeq(<<1, 2, 3, 4, 5, 6, 7>>, 1, n) : n \in 0..(w - 1)}

UnderrunExperiments ==
    { [kind |-> "short", done |-> FALSE, fields |-> <<[type |-> t, value |-> <<>>]>>,
       ub |-> ub, encoded |-> b, direct |-> NoDecoded, flipped |-> NoDecoded]
        : t \in FixedWidthTypes, b \in ShortBuffers(8), ub \in ShiftOutcomes }

\* the experiments whose integer value has the size of its type
WellTyped(e) ==
    /\ e.kind = "int" => Len(e.fields[1].value) = SizeOf(e.fields[1].type)
    /\ e.kind = "short" => Len(e.encoded) < SizeOf(e.fields[1].type)

\* what reading the fields back yields, straight from the buffer written and
\* after one Flip
ReadBack(e) ==
    LET encoded == EncodeFields(<<>>, e.fields)
    IN [e EXCEPT !.done = TRUE,
                 !.encoded = encoded,
                 !.direct = DecodeFields(encoded, e.fields, e.ub, NoFields),
                 !.flipped = DecodeFields(Flip(encoded), e.fields, e.ub, NoFields)]

\* Encode<T> on an empty buffer, then Decode<T>
EncodeThenDecodeInt ==
    /\ codec.kind = "int"
    /\ ~codec.done
    /\ codec' = ReadBack(codec)
    /\ UNCHANGED <<hostVars, layerVars, rpcVars, rpcExec>>

\* several fields encoded into one buffer, then decoded in the same order
EncodeThenDecodeFields ==
    /\ codec.kind = "fields"
    /\ ~codec.done
    /\ codec' = ReadBack(codec)
    /\ UNCHANGED <<hostVars, layerVars, rpcVars, rpcExec>>

\* Encode<std::string> on an empty buffer, then Decode<std::string>
EncodeThenDecodeString ==
    /\ codec.kind = "string"
    /\ ~codec.done
    /\ codec' = ReadBack(codec)
    /\ UNCHANGED <<hostVars, layerVars, rpcVars, rpcExec>>

\* Decode<T> on a buffer that holds too few bytes
DecodeShortBuffer ==
    /\ codec.kind = "short"
    /\ ~codec.done
    /\ codec' = [codec EXCEPT
                   !.done = TRUE,
                   !.direct = DecodeFields(codec.encoded, codec.fields, codec.ub, NoFields)]
    /\ UNCHANGED <<hostVars, layerVars, rpcVars, rpcExec>>

InitCodec ==
    /\ InitHostIdle
    /\ InitLayer
    /\ InitRPCIdle
    /\ rpcExec = NoExperiment
    /\ codec \in {e \in CodecExperiments \cup UnderrunExperiments : WellTyped(e)}

NextCodec ==
    \/ EncodeThenDecodeInt
    \/ EncodeThenDecodeFields
    \/ EncodeThenDecodeString
    \/ DecodeShortBuffer

SpecCodec == InitCodec /\ [][NextCodec]_vars

(***************************************************************************)
(* Decode<std::string> one pass of its while (true) loop at a time.  The   *)
(* record holds the buffer as it was passed in (encoded), the buffer and   *)
(* out as they are now, the value returned ("running" before the return)   *)
(* and what the last pass did.                                             *)
(***************************************************************************)
MaxStringBuffer == 4

StringBytes == {0, 65, 66}

RECURSIVE BuffersUpTo(_)
BuffersUpTo(n) ==
    IF n = 0 THEN {<<>>}
    ELSE LET shorter == BuffersUpTo(n - 1)
         IN shorter \cup {Append(b, c) : b \in {x \in shorter : Len(x) = n - 1},
                                         c \in StringBytes}

\* the loop without `if (buffer.Size() == 0) return false;`: the Pop of an
\* empty buffer reads a terminator
DecodeStringPass_Unchecked(buf, out) ==
    IF Len(buf) = 0
    THEN [buf |-> buf, out |-> out, result |-> "true", popped |-> TRUE]
    ELSE IF Peek(buf) = 0
    THEN [buf |-> PopRest(buf), out |-> out, result |-> "true", popped |-> TRUE]
    ELSE [buf |-> PopRest(buf), out |-> Append(out, Peek(buf)),
          result |-> "running", popped |-> TRUE]

\* one pass of the loop: the size check, the Pop, the test for '\0', out += c
DecodeStringPass(buf, out) ==
    IF Len(buf) = 0
    THEN [buf |-> buf, out |-> out, result |-> "false", popped |-> FALSE]
    ELSE IF Peek(buf) = 0
    THEN [buf |-> PopRest(buf), out |-> out, result |-> "true", popped |-> TRUE]
    ELSE [buf |-> PopRest(buf), out |-> Append(out, Peek(buf)),
          result |-> "running", popped |-> TRUE]

StringLoopStarts ==
    { [kind |-> "loop", done |-> FALSE, encoded |-> b, buf |-> b, out |-> <<>>,
       result |-> "running", popped |-> FALSE, sizeAtPop |-> 0, passes |-> 0]
        : b \in BuffersUpTo(MaxStringBuffer) }

DecodeStringStep ==
    /\ codec.kind = "loop"
    /\ codec.result = "running"
    /\ LET pass == DecodeStringPass(codec.buf, codec.out)
       IN codec' = [codec EXCEPT
                      !.buf = pass.buf,
                      !.out = pass.out,
                      !.result = pass.result,
                      !.popped = pass.popped,
                      !.sizeAtPop = IF pass.popped THEN Len(codec.buf) ELSE @,
                      !.passes = @ + 1,
                      !.done = pass.result # "running"]
    /\ UNCHANGED <<hostVars, layerVars, rpcVars, rpcExec>>

InitStringLoop ==
    /\ InitHostIdle
    /\ InitLayer
    /\ InitRPCIdle
    /\ rpcExec = NoExperiment
    /\ codec \in StringLoopStarts

NextStringLoop == DecodeStringStep

\* the loop is ordinary sequential code: a pass that can run does run
SpecStringLoop ==
    InitStringLoop /\ [][NextStringLoop]_vars /\ WF_vars(DecodeStringStep)

(***************************************************************************)
(* Encode<RPCRequest> and Decode<RPCRequest>: a request is written, the    *)
(* receiver flips the bytes and reads the request back, from all of the    *)
(* bytes or from a packet that lost the last of them.                      *)
(***************************************************************************)
RpcIndices == {0, 1, 258, 65535}

RequestArgs == {<<>>} \cup {<<a, b>> : a \in FloatBits, b \in FloatBits}

Requests ==
    { [function |-> [index |-> i, callingMode |-> m], args |-> a, params |-> EncodeParams(a)]
        : i \in RpcIndices, m \in RPCCallingModes, a \in RequestArgs }

NoDecodedRequest == [ok |-> FALSE, out |-> NoRequest, buf |-> <<>>, overrun |-> FALSE]

RequestExperiments ==
    { [kind |-> "request", done |-> FALSE, request |-> r, short |-> "clamped",
       lost |-> 0, received |-> <<>>, decoded |-> NoDecodedRequest]
        : r \in Requests }
    \cup
    { [kind |-> "truncated", done |-> FALSE, request |-> r, short |-> o,
       lost |-> n, received |-> <<>>, decoded |-> NoDecodedRequest]
        : r \in {x \in Requests : x.function.index = 1 /\ x.params # <<>>},
          o \in PopBufferOutcomes, n \in {1, 5, 8} }

\* the bytes the receiver decodes: the request as written, flipped
ReceivedRequest(r) == Flip(EncodeRPCRequest(<<>>, r))

EncodeThenDecodeRequest ==
    /\ codec.kind = "request"
    /\ ~codec.done
    /\ LET received == ReceivedRequest(codec.request)
       IN codec' = [codec EXCEPT !.done = TRUE,
                                 !.received = received,
                                 !.decoded = DecodeRPCRequest(received, codec.short)]
    /\ UNCHANGED <<hostVars, layerVars, rpcVars, rpcExec>>

\* the last `lost` bytes written are missing: they are the ones that lie
\* deepest in the flipped buffer
DecodeTruncatedRequest ==
    /\ codec.kind = "truncated"
    /\ ~codec.done
    /\ LET whole == ReceivedRequest(codec.request)
           received == SubSeq(whole, codec.lost + 1, Len(whole))
       IN codec' = [codec EXCEPT !.done = TRUE,
                                 !.received = received,
                                 !.decoded = DecodeRPCRequest(received, codec.short)]
    /\ UNCHANGED <<hostVars, layerVars, rpcVars, rpcExec>>

InitRequest ==
    /\ InitHostIdle
    /\ InitLayer
    /\ InitRPCIdle
    /\ rpcExec = NoExperiment
    /\ codec \in RequestExperiments

NextRequest ==
    \/ EncodeThenDecodeRequest
    \/ DecodeTruncatedRequest

SpecRequest == InitRequest /\ [][NextRequest]_vars

(***************************************************************************)
(* DefaultNetLayer: the handshake body a client writes and what the host's *)
(* layer makes of it.                                                      *)
(***************************************************************************)
\* the password test without `!m_password.empty() &&`
OnDecodeHandshake_EmptyRejects(inBuffer, password) ==
    LET name == DecodeString(inBuffer)
        pass == DecodeString(name.buf)
    IN  IF ~name.ok
        THEN [code |-> RC_BadRequest, nameSet |-> FALSE, playerName |-> <<>>, buf |-> name.buf]
        ELSE IF ~pass.ok
        THEN [code |-> RC_BadRequest, nameSet |-> FALSE, playerName |-> <<>>, buf |-> pass.buf]
        ELSE IF password # pass.out
        THEN [code |-> RC_BadAuthentication, nameSet |-> FALSE, playerName |-> <<>>, buf |-> pass.buf]
        ELSE [code |-> RC_Accepted, nameSet |-> TRUE, playerName |-> name.out, buf |-> pass.buf]

\* DefaultNetLayer::OnDecodeHandshake with m_password = password: the code
\* returned, whether SetPlayerName is reached and with which name, and the
\* buffer left
OnDecodeHandshake(inBuffer, password) ==
    LET name == DecodeString(inBuffer)
        pass == DecodeString(name.buf)
    IN  IF ~name.ok
        THEN [code |-> RC_BadRequest, nameSet |-> FALSE, playerName |-> <<>>, buf |-> name.buf]
        ELSE IF ~pass.ok
        THEN [code |-> RC_BadRequest, nameSet |-> FALSE, playerName |-> <<>>, buf |-> pass.buf]
        ELSE IF password # <<>> /\ password # pass.out
        THEN [code |-> RC_BadAuthentication, nameSet |-> FALSE, playerName |-> <<>>, buf |-> pass.buf]
        ELSE [code |-> RC_Accepted, nameSet |-> TRUE, playerName |-> name.out, buf |-> pass.buf]

\* the names GetUserName gives and the passwords clients send
PlayerNames == {<<>>, <<65, 108>>, <<66, 111, 98>>}

ClientPasswords == {<<>>, <<115>>, <<116>>, <<115, 115>>}

\* a client's layer writes the body, the host flips what arrived and hands
\* it to its layer; `lost` bytes at the end of the body did not arrive
DecodeHandshake ==
    /\ ~codec.done
    /\ \E playerName \in PlayerNames, password \in ClientPasswords :
         LET written == OnEncodeHandshake(<<>>, playerName, password)
         IN \E lost \in 0..Len(written) :
              LET inBuffer == SubSeq(Flip(written), lost + 1, Len(written))
              IN codec' = [kind |-> "handshake", done |-> TRUE,
                           playerName |-> playerName, password |-> password,
                           lost |-> lost, inBuffer |-> inBuffer,
                           m_password |-> m_password,
                           result |-> OnDecodeHandshake(inBuffer, m_password)]
    /\ UNCHANGED <<hostVars, layerVars, rpcVars, rpcExec>>

\* connection flags with other bits set, as a layer built on this one may
\* hold them when it calls SetPassword
MaxConnFlags == 7

\* the bit-flag part of SetPassword on any flags value
SetPasswordFlags ==
    /\ ~codec.done
    /\ \E before \in 0..MaxConnFlags, pass \in ClientPasswords :
         codec' = [kind |-> "flags", done |-> TRUE, before |-> before, pass |-> pass,
                   after |-> PasswordFlags(before, pass)]
    /\ UNCHANGED <<hostVars, layerVars, rpcVars, rpcExec>>

InitHandshake ==
    /\ InitHostIdle
    /\ InitLayer
    /\ InitRPCIdle
    /\ InitPureIdle

NextHandshake ==
    \/ SetPassword
    \/ DecodeHandshake
    \/ SetPasswordFlags

SpecHandshake == InitHandshake /\ [][NextHandshake]_vars

(***************************************************************************)
(* Vocabulary of the properties.                                           *)
(***************************************************************************)
Range(seq) == {seq[i] : i \in DOMAIN seq}

\* identities of the clients of the list
TrackedIdentities(clients, h) == {h[a].identity : a \in Range(clients) \cap DOMAIN h}

\* the lookup table maps the identity to a client record of that identity
LookupHasClient(lookup, h, identity) ==
    /\ identity \in DOMAIN lookup
    /\ lookup[identity] # NULL
    /\ lookup[identity] \in DOMAIN h
    /\ h[lookup[identity]].identity = identity

\* a step of Update that hands one polled packet to ForwardToClient
ForwardsTcpPacket == pc = "tcp" /\ pc' = "tcp" /\ remaining' = remaining - 1
ForwardsUdpPacket == pc = "udp" /\ pc' = "udp" /\ remaining' = remaining - 1

\* the receiving side reads a response: flip, then the response code
ResponseCodeOf(data) == DecodeUint16(Flip(data))

\* exactly one datagram went to the source and its only field is the code
SentOnly(sent, code, dest) ==
    /\ Len(sent) = 1
    /\ sent[1].dest = dest
    /\ ResponseCodeOf(sent[1].data).ok
    /\ ResponseCodeOf(sent[1].data).out = code
    /\ ResponseCodeOf(sent[1].data).buf = <<>>

\* the receiving side reads a Query response: flip, then the five fields in order
DecodeQueryResponse(data) ==
    LET c == DecodeUint16(Flip(data))
        n == DecodeUint16(c.buf)
        m == DecodeUint16(n.buf)
        name == DecodeString(m.buf)
        f == DecodeUint8(name.buf)
    IN [ok |-> c.ok /\ n.ok /\ m.ok /\ name.ok /\ f.ok /\ f.buf = <<>>,
        fields |-> <<c.out, n.out, m.out, name.out, f.out>>]

(***************************************************************************)
(* Properties of the host session.                                         *)
(***************************************************************************)
\* C1: a well-formed, version-matching Connect request that arrives on the TCP
\* socket from a source that is not a tracked client, on a host with no
\* password, is answered with Accepted sent to that source, and when
\* ForwardToClient returns a client record of that identity is in the client
\* list and in the lookup table.
C1_ConnectAccepted ==
    [][ ( /\ ForwardsTcpPacket
          /\ last'.raw \in ConnectRequests
          /\ last'.source \notin TrackedIdentities(m_clients, heap)
          /\ m_password = NoPassword )
        => ( /\ SentOnly(last'.sent, RC_Accepted, last'.source)
             /\ last'.source \in TrackedIdentities(m_clients', heap')
             /\ LookupHasClient(m_clientLookup', heap', last'.source)
             /\ m_clientLookup'[last'.source] \in Range(m_clients') ) ]_vars

C1_Witness ==
    /\ last.socket = TCP
    /\ last.raw = ConnectRequest(HostEngineVersion, HostGameVersion, NoPassword)
    /\ last.verified
    /\ m_password = NoPassword
    /\ last.source \in TrackedIdentities(m_clients, heap)
    /\ LookupHasClient(m_clientLookup, heap, last.source)

\* C2: on a host with a non-empty password, a well-formed, version-matching
\* Connect request from an unknown source on the TCP socket that carries a
\* different password is answered with BadAuthentication and the client is
\* added neither to the client list nor to the lookup table.
C2_BadAuthentication ==
    [][ ( /\ ForwardsTcpPacket
          /\ m_password # NoPassword
          /\ \E pw \in Passwords :
               /\ pw # m_password
               /\ last'.raw = ConnectRequest(HostEngineVersion, HostGameVersion, pw)
          /\ last'.source \notin TrackedIdentities(m_clients, heap) )
        => ( /\ SentOnly(last'.sent, RC_BadAuthentication, last'.source)
             /\ last'.source \notin TrackedIdentities(m_clients', heap')
             /\ ~LookupHasClient(m_clientLookup', heap', last'.source) ) ]_vars

\* C3: a TCP packet from an unknown source whose header fails to decode is
\* answered with exactly one response whose only field is BadRequest, one
\* whose engine or game version differs with exactly one response whose only
\* field is BadVersions; the client is not admitted and neither the client
\* list nor the lookup table retains a record for the source identity.
C3_RejectedNothingRetained ==
    [][ ( /\ ForwardsTcpPacket
          /\ last'.raw \in TruncatedRequests \cup BadVersionRequests
          /\ last'.source \notin TrackedIdentities(m_clients, heap) )
        => ( /\ last'.raw \in TruncatedRequests
                  => SentOnly(last'.sent, RC_BadRequest, last'.source)
             /\ last'.raw \in BadVersionRequests
                  => SentOnly(last'.sent, RC_BadVersions, last'.source)
             /\ last'.source \notin TrackedIdentities(m_clients', heap')
             /\ last'.source \notin DOMAIN m_clientLookup' ) ]_vars

\* C4: a well-formed, version-matching Ping or Query request on the TCP socket
\* from an unknown source is answered with Responded, and the client list and
\* the lookup table are the same after ForwardToClient as before it.
C4_PingQueryNoStateChange ==
    [][ ( /\ ForwardsTcpPacket
          /\ last'.raw \in {PingRequest, QueryRequest}
          /\ last'.source \notin TrackedIdentities(m_clients, heap) )
        => ( /\ Len(last'.sent) = 1
             /\ ResponseCodeOf(last'.sent[1].data).out = RC_Responded
             /\ m_clients' = m_clients
             /\ m_clientLookup' = m_clientLookup ) ]_vars

C5_Example ==
    DecodeQueryResponse(
      VerifyHandshake(Flip(QueryRequest), 1, TCP, <<1, 2>>, 8).sent[1].data)

\* C5: the response to a Query request carries, in this order, Responded, the
\* number of clients tracked when the query is processed, the player limit,
\* the server name "Unnamed Server" and a flags byte 0; with 2 connected
\* clients and a limit of 8 it decodes to (Responded, 2, 8, "Unnamed Server", 0).
C5_QueryResponse ==
    [][ ( /\ ForwardsTcpPacket
          /\ last'.raw = QueryRequest
          /\ last'.source \notin TrackedIdentities(m_clients, heap) )
        => ( /\ Len(last'.sent) = 1
             /\ last'.sent[1].dest = last'.source
             /\ DecodeQueryResponse(last'.sent[1].data).ok
             /\ DecodeQueryResponse(last'.sent[1].data).fields
                  = <<RC_Responded, Len(m_clients), maxPlayerCount, ServerName, 0>>
             /\ C5_Example.ok
             /\ C5_Example.fields = <<5, 2, 8, ServerName, 0>> ) ]_vars

C5_Witness ==
    /\ last.socket = TCP
    /\ last.raw = QueryRequest
    /\ last.verified
    /\ Len(m_clients) = 2
    /\ Len(last.sent) = 1
    /\ DecodeQueryResponse(last.sent[1].data).fields[2] = 2

\* C6: a packet on the UDP socket from a source that is not a tracked client
\* is ignored whatever its contents: no response is sent, no handshake
\* verification runs and no client is admitted; the client list grows only in
\* a step that forwards a packet received on the TCP socket.
C6_UdpUnknownIgnored ==
    [][ /\ ( /\ ForwardsUdpPacket
             /\ last'.source \notin TrackedIdentities(m_clients, heap) )
           => ( /\ last'.socket = UDP
                /\ last'.sent = <<>>
                /\ ~last'.verified
                /\ m_clients' = m_clients
                /\ heap' = heap
                /\ ~LookupHasClient(m_clientLookup', heap', last'.source) )
        /\ TrackedIdentities(m_clients', heap') \ TrackedIdentities(m_clients, heap) # {}
           => ( /\ ForwardsTcpPacket
                /\ last'.socket = TCP
                /\ TrackedIdentities(m_clients', heap')
                     = TrackedIdentities(m_clients, heap) \cup {last'.source} ) ]_vars

C6_Witness ==
    /\ last.socket = UDP
    /\ last.raw \in ConnectRequests
    /\ last.source \notin TrackedIdentities(m_clients, heap)
    /\ m_clients # <<>>

\* C7: a client that has been admitted stays in the client list and in the
\* lookup table through every later step (Update ticks, packets from any
\* source on either socket) until the session is torn down, and the teardown
\* releases every client record of the list.
C7_ClientsKeptUntilTeardown ==
    [][ /\ lifecycle' # "destroyed"
           => \A a \in Range(m_clients) :
                /\ a \in Range(m_clients')
                /\ a \in DOMAIN heap'
                /\ heap'[a] = heap[a]
                /\ LookupHasClient(m_clientLookup', heap', heap[a].identity)
                /\ m_clientLookup'[heap[a].identity] = a
        /\ (lifecycle # "destroyed" /\ lifecycle' = "destroyed")
           => \A a \in Range(m_clients) : a \notin DOMAIN heap' ]_vars

C7_Witness ==
    /\ lifecycle = "destroyed"
    /\ last.code = RC_Accepted
    /\ DOMAIN heap = {}

\* C8: when the TCP Listen or the UDP Listen fails, Start returns false,
\* bIsConnected stays false and no socket is left listening.
C8_FailedStartLeavesNothing ==
    lifecycle = "failed" => (~bIsConnected /\ ~tcpListening /\ ~udpListening)

\* C9: every packet polled in a tick is flipped once and handed once to
\* ForwardToClient, which routes it by its source identity; every handshake
\* started in the tick is resolved before Update returns (a response is sent
\* and the client is either tracked or discarded), so that when Update has
\* returned no packet and no provisional client is left over.
C9_TickResolvesEverything ==
    [][ /\ (ForwardsTcpPacket \/ ForwardsUdpPacket)
           => ( /\ last'.passed = Flip(last'.raw)
                /\ last'.source \in DOMAIN m_clientLookup' )
        /\ (ForwardsTcpPacket /\ last'.source \notin TrackedIdentities(m_clients, heap))
           => ( /\ last'.verified
                /\ Len(last'.sent) = 1
                /\ last'.sent[1].dest = last'.source
                /\ \/ /\ last'.source \in TrackedIdentities(m_clients', heap')
                      /\ Len(m_clients') = Len(m_clients) + 1
                   \/ /\ m_clients' = m_clients
                      /\ heap' = heap )
        /\ pc' = "idle"
           => ( /\ remaining' = 0
                /\ DOMAIN heap' = Range(m_clients') ) ]_vars

(***************************************************************************)
(* Properties of the RPC calling macro.                                    *)
(***************************************************************************)
\* the last call remoted: one request more in the queue of the RPC's socket,
\* carrying the RPC's index and mode, and the other queue as long as before
LastCallEnqueued ==
    LET queue == IF rpcLast.socket = TCP THEN m_TcpRpcQueue ELSE m_UdpRpcQueue
        before == IF rpcLast.socket = TCP THEN rpcLast.tcpBefore ELSE rpcLast.udpBefore
    IN /\ Len(queue) = before + 1
       /\ queue[Len(queue)].function.index = rpcLast.index
       /\ queue[Len(queue)].function.callingMode = rpcLast.mode
       /\ Len(m_TcpRpcQueue) + Len(m_UdpRpcQueue) = rpcLast.tcpBefore + rpcLast.udpBefore + 1

LastCallEnqueuedNothing ==
    /\ Len(m_TcpRpcQueue) = rpcLast.tcpBefore
    /\ Len(m_UdpRpcQueue) = rpcLast.udpBefore

\* C10: on an object with a nonzero network id, a call of a registered
\* Host-mode RPC runs the function locally exactly when the caller's role is
\* HostOwner or HostPuppet and is otherwise remoted (one RPCRequest enqueued,
\* the function not run); a call of an Owner-mode RPC runs locally exactly
\* when the caller is the net owner and is otherwise remoted.
C10_HostAndOwnerModes ==
    (rpcLast.outcome # "none" /\ rpcLast.registered /\ rpcLast.networkId # 0)
    => /\ rpcLast.mode = "Host"
          => IF rpcLast.role \in {"HostOwner", "HostPuppet"}
             THEN rpcLast.outcome = "local" /\ LastCallEnqueuedNothing
             ELSE rpcLast.outcome = "remote" /\ LastCallEnqueued
       /\ rpcLast.mode = "Owner"
          => IF rpcLast.role \in {"None", "HostOwner", "RemoteOwner"}
             THEN rpcLast.outcome = "local" /\ LastCallEnqueuedNothing
             ELSE rpcLast.outcome = "remote" /\ LastCallEnqueued

C10_Witness ==
    /\ rpcLast.func = "Respawn"
    /\ rpcLast.mode = "Owner"
    /\ rpcLast.role = "HostPuppet"
    /\ rpcLast.networkId # 0
    /\ rpcLast.outcome = "remote"
    /\ Len(m_TcpRpcQueue) = rpcLast.tcpBefore + 1

\* C11: a call of a registered RPC on an object whose network id is zero runs
\* the target function locally, whatever the calling mode and the role.
C11_ZeroIdPassThrough ==
    (rpcLast.outcome # "none" /\ rpcLast.registered /\ rpcLast.networkId = 0)
    => rpcLast.outcome = "local"

\* the rights of the call semantics: who may run an RPC on this machine and
\* who may send it to the other side
DirectRight(role, mode) ==
    \/ mode = "Host" /\ role \in {"HostOwner", "HostPuppet"}
    \/ mode = "Owner" /\ role \in {"None", "HostOwner", "RemoteOwner"}

RemoteRight(role, mode) ==
    mode = "Broadcast" => role \in {"HostOwner", "HostPuppet"}

\* C12: a call of a registered RPC on an object with a nonzero network id
\* has, for every role and every calling mode, exactly one of three outcomes:
\* the function runs locally (nothing enqueued), one RPCRequest is enqueued,
\* or an error is logged (nothing enqueued); the error is the outcome exactly
\* when the caller has neither the right to run it nor the right to remote it.
C12_ThreeOutcomes ==
    (rpcLast.outcome # "none" /\ rpcLast.registered /\ rpcLast.networkId # 0)
    => /\ rpcLast.outcome \in {"local", "remote", "error"}
       /\ rpcLast.outcome = "local" => LastCallEnqueuedNothing
       /\ rpcLast.outcome = "remote" => LastCallEnqueued
       /\ rpcLast.outcome = "error" => LastCallEnqueuedNothing
       /\ rpcLast.outcome = "error"
            <=> ( /\ ~DirectRight(rpcLast.role, rpcLast.mode)
                  /\ ~RemoteRight(rpcLast.role, rpcLast.mode) )

C12_Witness ==
    /\ rpcLast.registered
    /\ rpcLast.networkId # 0
    /\ rpcLast.role = "RemoteOwner"
    /\ rpcLast.mode = "Broadcast"
    /\ rpcLast.outcome = "error"
    /\ Len(m_TcpRpcQueue) + Len(m_UdpRpcQueue) > 0

\* C13: a Broadcast-mode RPC called by a host on an object with a nonzero
\* network id is remoted, exactly one RPCRequest enqueued; called by a caller
\* that is not a host it enqueues nothing and the function is not run.
C13_BroadcastHostOnly ==
    (rpcLast.outcome # "none" /\ rpcLast.registered /\ rpcLast.mode = "Broadcast")
    => /\ (rpcLast.role \in {"HostOwner", "HostPuppet"} /\ rpcLast.networkId # 0)
            => (rpcLast.outcome = "remote" /\ LastCallEnqueued)
       /\ rpcLast.role \notin {"HostOwner", "HostPuppet"}
            => (rpcLast.outcome \notin {"local", "remote"} /\ LastCallEnqueuedNothing)

C13_Witness ==
    /\ rpcLast.func = "MoveTo"
    /\ rpcLast.mode = "Broadcast"
    /\ rpcLast.role = "HostPuppet"
    /\ rpcLast.networkId # 0
    /\ rpcLast.outcome = "remote"
    /\ Len(m_UdpRpcQueue) = rpcLast.udpBefore + 1

\* the RPCRequest a remoted call of func with args carries
RequestOf(func, args) ==
    [function |-> [index |-> RegisterRPCs(func).index,
                   callingMode |-> RegisterRPCs(func).mode,
                   socket |-> RegisterRPCs(func).socket],
     params |-> IF Len(args) = 0 THEN <<>>
                ELSE EncodeInt32(EncodeInt32(<<>>, args[1]), args[2])]

\* a step that changes the queue either appends one request behind the
\* requests already queued or empties the queue
AppendsOrClears(queue, queueAfter) ==
    \/ queueAfter = queue
    \/ queueAfter = <<>>
    \/ /\ Len(queueAfter) = Len(queue) + 1
       /\ SubSeq(queueAfter, 1, Len(queue)) = queue

\* C17: a remoted call appends exactly one RPCRequest (the RPC's info and the
\* encoded parameters) to the queue of the RPC's socket type and leaves the
\* other queue unchanged; the requests of a queue stay in the order of the
\* calls and the flush emits them first to last; after ClearQueuedNetData,
\* HasQueuedNetData is false for TCP and for UDP.
C17_QueuesKeepCallOrder ==
    [][ /\ AppendsOrClears(m_TcpRpcQueue, m_TcpRpcQueue')
        /\ AppendsOrClears(m_UdpRpcQueue, m_UdpRpcQueue')
        /\ rpcLast'.outcome = "remote"
             => LET req == RequestOf(rpcLast'.func, rpcLast'.args)
                IN IF rpcLast'.socket = TCP
                   THEN /\ m_TcpRpcQueue' = Append(m_TcpRpcQueue, req)
                        /\ m_UdpRpcQueue' = m_UdpRpcQueue
                   ELSE /\ m_UdpRpcQueue' = Append(m_UdpRpcQueue, req)
                        /\ m_TcpRpcQueue' = m_TcpRpcQueue
        /\ \A q \in {m_TcpRpcQueue', m_UdpRpcQueue'} :
             q # <<>>
             => /\ EncodeRPCRequests(<<>>, q)
                     = EncodeRPCRequest(
                         EncodeRPCRequests(<<>>, SubSeq(q, 1, Len(q) - 1)), q[Len(q)])
                /\ SubSeq(EncodeRPCRequests(<<>>, q), 1, Len(EncodeRPCRequest(<<>>, q[1])))
                     = EncodeRPCRequest(<<>>, q[1])
        /\ ClearQueuedNetData
             => (~HasQueuedNetData(TCP)' /\ ~HasQueuedNetData(UDP)') ]_vars

C17_Witness ==
    /\ Len(m_UdpRpcQueue) = 2
    /\ m_UdpRpcQueue[1] = RequestOf("MoveTo", <<1065353216, 0>>)
    /\ m_UdpRpcQueue[2] = RequestOf("PrintTime", <<1065353216, 1065353216>>)
    /\ Len(m_TcpRpcQueue) = 1
    /\ rpcLast.func = "PrintTime"
    /\ rpcLast.outcome = "remote"

(***************************************************************************)
(* Properties of registration and dispatch.                                *)
(***************************************************************************)
\* the RPC slots of the classes up to depth d, the most distant ancestor's first
RECURSIVE FlatTable(_)
FlatTable(d) == IF d = 0 THEN <<>> ELSE FlatTable(d - 1) \o ClassChain[d]

\* the dispatch reached the slot: it returned true, and it invoked the slot's
\* function unless the slot takes parameters and the buffer is too short
DispatchedTo(out, slot, params) ==
    /\ out.handled
    /\ \/ out.invoked = slot.func
       \/ out.invoked = "" /\ slot.params > 0 /\ Len(params) < 4 * slot.params

\* C14: on an object whose class has N ancestor RPC slots and M own slots,
\* ExecuteRPC with an index below N invokes the ancestor's RPC at that index,
\* with index N+k (k < M) the k-th RPC the class declares itself, and with an
\* index of N+M or more it invokes nothing and returns false.
C14_IndexStability ==
    (rpcExec.kind = "execute" /\ rpcExec.done)
    => LET n == Len(FlatTable(rpcExec.depth - 1))
           m == Len(ClassChain[rpcExec.depth])
       IN /\ rpcExec.id < n
               => DispatchedTo(rpcExec.out, FlatTable(rpcExec.depth - 1)[rpcExec.id + 1],
                               rpcExec.params)
          /\ (rpcExec.id >= n /\ rpcExec.id < n + m)
               => DispatchedTo(rpcExec.out, ClassChain[rpcExec.depth][rpcExec.id - n + 1],
                               rpcExec.params)
          /\ rpcExec.id >= n + m
               => (~rpcExec.out.handled /\ rpcExec.out.invoked = "")

\* the names declared by the classes up to depth d
DeclaredNames(d) == {FlatTable(d)[i].func : i \in 1..Len(FlatTable(d))}

\* C15: for every name f declared by the type or an ancestor, RegisterRPCs(f)
\* returns true with an index i such that ExecuteRPC(i) invokes exactly f;
\* distinct names get distinct indices, the type's own indices continue from
\* its N ancestor slots, and a name declared nowhere returns false.
C15_TablesAgree ==
    (rpcExec.kind = "register" /\ rpcExec.done)
    => LET d == rpcExec.depth
           f == rpcExec.func
       IN /\ rpcExec.info.found <=> f \in DeclaredNames(d)
          /\ rpcExec.info.found
               => /\ rpcExec.out.handled
                  /\ rpcExec.out.invoked = f
                  /\ FlatTable(d)[rpcExec.info.index + 1].func = f
                  /\ \A g \in DeclaredNames(d) \ {f} :
                       RegisterRPCsAt(d, g).index # rpcExec.info.index

ValuesOf(fields) == [i \in 1..Len(fields) |-> fields[i].value]

AllTrue(oks) == \A i \in 1..Len(oks) : oks[i]

\* C18: for every integer type T (8, 16, 32 and 64 bits, signed and unsigned)
\* and every value v, Encode<T>(buffer, v) on an empty buffer followed by
\* Decode<T>(buffer, out) returns true with out = v and leaves the buffer empty.
C18_IntegerRoundTrip ==
    (codec.kind = "int" /\ codec.done)
    => /\ AllTrue(codec.direct.oks)
       /\ codec.direct.values = ValuesOf(codec.fields)
       /\ codec.direct.buf = <<>>

\* C19: fields (8/16/32-bit integers, strings shorter than the cap) encoded in
\* order into one buffer that is then flipped once are returned by as many
\* Decode calls in the same order, each succeeding with the value encoded, and
\* the buffer is empty afterwards; without the flip, decoding in encode order
\* does not in general return the values encoded.
C19_FlipThenDecodeInOrder ==
    (codec.kind = "fields" /\ codec.done)
    => /\ AllTrue(codec.flipped.oks)
       /\ codec.flipped.values = ValuesOf(codec.fields)
       /\ codec.flipped.buf = <<>>
       /\ LET fs == << [type |-> "uint8", value |-> <<7>>],
                       [type |-> "uint16", value |-> <<1, 2>>] >>
          IN DecodeFields(EncodeFields(<<>>, fs), fs, "masked", NoFields).values
               # ValuesOf(fs)

C19_Witness ==
    /\ codec.kind = "fields"
    /\ codec.done
    /\ Len(codec.fields) = 3
    /\ codec.fields[1].type = "uint32"
    /\ codec.fields[2].type = "string"
    /\ codec.fields[3].type = "uint16"
    /\ codec.flipped.values = ValuesOf(codec.fields)
    /\ codec.direct.values # ValuesOf(codec.fields)

C21_UnderrunLeavesBuffer ==
    (codec.kind = "short" /\ codec.done)
    => /\ codec.direct.oks = <<FALSE>>
       /\ codec.direct.buf = codec.encoded
       /\ codec.fields[1].type # "float"
            => codec.direct.values = <<Zeros(SizeOf(codec.fields[1].type))>>

C21_Witness ==
    /\ codec.kind = "short"
    /\ codec.done
    /\ codec.fields[1].type = "int64"
    /\ Len(codec.encoded) = 7
    /\ codec.direct.oks = <<FALSE>>
    /\ Len(codec.direct.buf) = 7

\* C22: Decode<std::string> pops bytes until it has popped a NUL (it returns
\* true, out holding the bytes before the NUL in pop order) or the buffer is
\* empty (it returns false); no pass pops from an empty buffer and the loop
\* returns on every finite buffer, after at most one pass per byte and one more.
C22_StringLoopEnds ==
    /\ [](codec.popped => codec.sizeAtPop > 0)
    /\ [](codec.result = "true"
            => /\ codec.popped
               /\ codec.encoded = codec.buf \o <<0>> \o Reverse(codec.out)
               /\ 0 \notin Range(codec.out))
    /\ [](codec.result = "false"
            => /\ codec.buf = <<>>
               /\ codec.encoded = Reverse(codec.out)
               /\ 0 \notin Range(codec.encoded))
    /\ [](codec.done
            => LET whole == DecodeString(codec.encoded)
               IN /\ whole.ok = (codec.result = "true")
                  /\ whole.out = codec.out
                  /\ whole.buf = codec.buf)
    /\ [](codec.passes <= Len(codec.encoded) + 1)
    /\ <>(codec.result # "running")

C22_Witness ==
    /\ codec.kind = "loop"
    /\ codec.result = "true"
    /\ codec.passes = 3
    /\ Len(codec.out) = 2
    /\ Len(codec.buf) = 1

\* C23: UpdateRole derives the role from the pair (the session is the host,
\* the object is assigned to the local owner): (true, true) gives HostOwner,
\* (true, false) HostPuppet, (false, true) RemoteOwner, (false, false)
\* RemotePuppet; after an update with an active session the role is never None.
C23_RoleTable ==
    rpcExec.kind = "role"
    => /\ m_netRole # "None"
       /\ (rpcExec.isHost /\ rpcExec.assignOwner) => m_netRole = "HostOwner"
       /\ (rpcExec.isHost /\ ~rpcExec.assignOwner) => m_netRole = "HostPuppet"
       /\ (~rpcExec.isHost /\ rpcExec.assignOwner) => m_netRole = "RemoteOwner"
       /\ (~rpcExec.isHost /\ ~rpcExec.assignOwner) => m_netRole = "RemotePuppet"

C23_Witness ==
    /\ rpcExec.kind = "role"
    /\ ~rpcExec.isHost
    /\ rpcExec.assignOwner
    /\ m_netRole = "RemoteOwner"
    /\ rpcLast.outcome = "local"

\* C24: IsNetOwner is true exactly for None, HostOwner and RemoteOwner,
\* IsNetHost exactly for HostOwner and HostPuppet, and HasNetControl is their
\* union: of the five roles only RemotePuppet has no control.
C24_RolePredicates ==
    /\ m_netRole \in NetRoles
    /\ IsNetOwner(m_netRole) <=> m_netRole \in {"None", "HostOwner", "RemoteOwner"}
    /\ IsNetHost(m_netRole) <=> m_netRole \in {"HostOwner", "HostPuppet"}
    /\ HasNetControl(m_netRole) <=> (IsNetOwner(m_netRole) \/ IsNetHost(m_netRole))
    /\ ~HasNetControl(m_netRole) <=> m_netRole = "RemotePuppet"

C24_Witness ==
    /\ m_netRole = "RemotePuppet"
    /\ ~HasNetControl(m_netRole)
    /\ rpcLast.registered
    /\ rpcLast.outcome \in {"remote", "nothing"}

\* the parameters read back from a parameter buffer, one Decode<float> each
DecodedArgs(params, n) ==
    LET first == DecodeFloat(params)
        second == DecodeFloat(first.buf)
    IN  IF n = 0 THEN [ok |-> TRUE, values |-> <<>>, buf |-> params]
        ELSE [ok |-> first.ok /\ second.ok,
              values |-> <<first.out, second.out>>,
              buf |-> second.buf]

C26_ShortParamsRejected ==
    (codec.kind = "truncated" /\ codec.done)
    => /\ ~codec.decoded.ok
       /\ ~codec.decoded.overrun

\* C27: for the 64-bit types a value with a non-zero byte among its bytes
\* 3 .. 7 (counted from the least significant, byte 0) comes back exactly from
\* encode, flip, decode: no bits of byte 3 spread into the bytes above it and
\* none of the bytes 4 .. 7 is lost.
C27_WideRoundTrip ==
    ( /\ codec.kind = "int"
      /\ codec.done
      /\ SizeOf(codec.fields[1].type) = 8
      /\ \E i \in 4..8 : codec.fields[1].value[i] # 0 )
    => /\ AllTrue(codec.flipped.oks)
       /\ codec.flipped.values = ValuesOf(codec.fields)
       /\ codec.flipped.buf = <<>>

\* C28: DefaultNetLayer::OnDecodeHandshake returns BadRequest when the name
\* or the password is not there to decode (the body lost bytes),
\* BadAuthentication when both decode, the host's password is non-empty and
\* differs from the one sent, and Accepted otherwise (no host password, or the
\* same password); the player's name is set only when the result is Accepted.
C28_HandshakeCodes ==
    (codec.kind = "handshake")
    => LET r == codec.result
       IN /\ codec.lost > 0 => r.code = RC_BadRequest
          /\ (codec.lost = 0 /\ codec.m_password # <<>>
                /\ codec.m_password # codec.password)
               => r.code = RC_BadAuthentication
          /\ (codec.lost = 0
                /\ (codec.m_password = <<>> \/ codec.m_password = codec.password))
               => (r.code = RC_Accepted /\ r.nameSet /\ r.playerName = codec.playerName)
          /\ r.code # RC_Accepted => ~r.nameSet
          /\ r.code \in {RC_BadRequest, RC_BadAuthentication, RC_Accepted}

C28_Witness ==
    /\ codec.kind = "handshake"
    /\ codec.m_password = <<115>>
    /\ codec.password = <<115, 115>>
    /\ codec.lost = 0
    /\ codec.result.code = RC_BadAuthentication
    /\ ~codec.result.nameSet

\* C29: the client list and the lookup table describe the same set of
\* clients: the identities that have an entry in the lookup table are the
\* identities of the clients of the list, every entry points to the client of
\* the list that has that identity, and no identity is in the list twice.
C29_ListMatchesLookup ==
    /\ DOMAIN m_clientLookup = TrackedIdentities(m_clients, heap)
    /\ \A identity \in DOMAIN m_clientLookup :
         m_clientLookup[identity] # NULL
           => /\ LookupHasClient(m_clientLookup, heap, identity)
              /\ m_clientLookup[identity] \in Range(m_clients)
    /\ \A i \in DOMAIN m_clients, j \in DOMAIN m_clients :
         (i # j /\ m_clients[i] \in DOMAIN heap /\ m_clients[j] \in DOMAIN heap)
           => heap[m_clients[i]].identity # heap[m_clients[j]].identity

\* C30: every packet that arrives on the TCP socket from a source that is not
\* a tracked client is answered with exactly one response to that source,
\* whatever it holds (an unrecognised request type included); a packet from a
\* tracked client and a packet on the UDP socket get no handshake response.
C30_OneResponsePerHandshake ==
    [][ /\ ( /\ ForwardsTcpPacket
             /\ last'.source \notin TrackedIdentities(m_clients, heap) )
           => ( /\ last'.verified
                /\ Len(last'.sent) = 1
                /\ last'.sent[1].dest = last'.source )
        /\ ( /\ ForwardsTcpPacket
             /\ last'.source \in TrackedIdentities(m_clients, heap) )
           => ( ~last'.verified /\ last'.sent = <<>> )
        /\ ForwardsUdpPacket
           => ( ~last'.verified /\ last'.sent = <<>> ) ]_vars

\* C31: in every reachable state of the host session the number of tracked
\* clients is at most maxPlayerCount, and a Query response never reports more
\* connected players than the player limit it reports.
C31_ClientsWithinLimit ==
    /\ Len(m_clients) <= maxPlayerCount
    /\ (last.raw = QueryRequest /\ last.verified /\ Len(last.sent) = 1)
         => DecodeQueryResponse(last.sent[1].data).fields[2]
              <= DecodeQueryResponse(last.sent[1].data).fields[3]

\* a bit of the connection flags, and the flags without it
HasBit(flags, bit) == (flags \div bit) % 2 = 1
OtherBits(flags, bit) == IF HasBit(flags, bit) THEN flags - bit ELSE flags

\* C32: after construction and after any sequence of SetPassword calls the
\* LAYER_FLAG_PASSWORD bit of the connection flags is set exactly when the
\* stored password is non-empty, and SetPassword changes no other bit of the
\* flags, whatever the flags were before the call.
C32_PasswordFlag ==
    /\ [](HasBit(m_connFlags, LAYER_FLAG_PASSWORD) <=> m_password # <<>>)
    /\ [][OtherBits(m_connFlags', LAYER_FLAG_PASSWORD)
            = OtherBits(m_connFlags, LAYER_FLAG_PASSWORD)]_vars
    /\ [](codec.kind = "flags"
            => /\ HasBit(codec.after, LAYER_FLAG_PASSWORD) <=> codec.pass # <<>>
               /\ OtherBits(codec.after, LAYER_FLAG_PASSWORD)
                    = OtherBits(codec.before, LAYER_FLAG_PASSWORD))

C32_Witness ==
    /\ m_password # <<>>
    /\ HasBit(m_connFlags, LAYER_FLAG_PASSWORD)
    /\ codec.kind = "flags"
    /\ codec.before = 7
    /\ codec.pass = <<>>
    /\ codec.after = 6

====
